---------------------------- MODULE Spec2Model ----------------------------
(***************************************************************************)
(* A model of the comparison endpoint of verifai                           *)
(*   src/app/api/compare/route.ts                                          *)
(* The handler POST validates a request, fans out 3 x runs upstream calls  *)
(* (one group to OpenAI, two groups to EigenAI), awaits them jointly with  *)
(* Promise.all and answers once.                                            *)
(*                                                                         *)
(* JavaScript runs one macrotask at a time and drains the microtask queue  *)
(* before the next one, so every action below is one macrotask (the        *)
(* arrival of the request, an upstream event, a timer) together with all   *)
(* the promise reactions it triggers.                                      *)
(***************************************************************************)
EXTENDS Integers, Sequences, FiniteSets, TLC

(***************************************************************************)
(* Bounds of the model.                                                    *)
(***************************************************************************)
\* JavaScript numbers are modelled as fixed-point values in units of 1/Scale
Scale == 2
\* the handler specification draws `runs` so that at most MaxFanout calls
\* are issued per group
MaxFanout == 2
\* the run-count specification draws `runs` from -MaxRunsInput .. MaxRunsInput
MaxRunsInput == 12
\* the cleanup specification draws texts of at most MaxPieces pieces
MaxPieces == 4
\* the page specification types texts of at most MaxInputLen characters
\* into the run-count field
MaxInputLen == 3

(***************************************************************************)
(* Program constants.                                                      *)
(***************************************************************************)
\* @/lib/constants is not part of the sources; the specification gives the
\* run-count bounds as configurable, "e.g. 1 and 8"
MIN_RUNS == 1
MAX_RUNS == 8
OPENAI_MODEL == "OPENAI_MODEL"
EIGENAI_MODEL == "EIGENAI_MODEL"
OPENAI_TIMEOUT_MS == 20000
\* body.runs ?? 4
DEFAULT_RUNS == 4
\* process.env.NEXT_PUBLIC_EIGENAI_DEFAULT_SEED ?? "42"
DEFAULT_SEED == 42

(***************************************************************************)
(* JavaScript values.                                                      *)
(*   a number is [k, v]: k = "fin" with v the value times Scale, or one of *)
(*   "nan", "inf", "ninf"; "undef" stands for undefined/null (an absent    *)
(*   field of the parsed body).                                            *)
(***************************************************************************)
Num(n) == [k |-> "fin", v |-> n * Scale]
Frac(v) == [k |-> "fin", v |-> v]
NaN == [k |-> "nan", v |-> 0]
PosInf == [k |-> "inf", v |-> 0]
NegInf == [k |-> "ninf", v |-> 0]
Undefined == [k |-> "undef", v |-> 0]

\* x < y on numbers other than NaN
NumLess(x, y) ==
    CASE x.k = "ninf" -> y.k # "ninf"
      [] x.k = "inf" -> FALSE
      [] OTHER -> \/ y.k = "inf"
                  \/ y.k = "fin" /\ x.v < y.v

\* a ?? b
Coalesce(a, b) == IF a.k = "undef" THEN b ELSE a

\* Math.floor: NaN and the infinities are returned unchanged
MathFloor(x) == IF x.k = "fin" THEN [k |-> "fin", v |-> (x.v \div Scale) * Scale] ELSE x

\* Math.max / Math.min: NaN if either argument is NaN
MathMax(a, b) ==
    IF a.k = "nan" \/ b.k = "nan" THEN NaN
    ELSE IF NumLess(a, b) THEN b ELSE a

MathMin(a, b) ==
    IF a.k = "nan" \/ b.k = "nan" THEN NaN
    ELSE IF NumLess(b, a) THEN b ELSE a

\* Number.isFinite
IsFinite(x) == x.k = "fin"

\* a clamp with its two steps exchanged
clamp_Swapped(value, min, max) == MathMax(MathMin(value, min), max)

clamp(value, min, max) == MathMin(MathMax(value, min), max)

\* line 72: const runs = clamp(Math.floor(body.runs ?? 4), MIN_RUNS, MAX_RUNS)
EffectiveRuns(bodyRuns) ==
    clamp(MathFloor(Coalesce(bodyRuns, Num(DEFAULT_RUNS))), Num(MIN_RUNS), Num(MAX_RUNS))

\* a seed taken as sent, without Math.floor
EffectiveSeed_Unfloored(bodySeed) ==
    IF IsFinite(bodySeed) /\ bodySeed.k # "undef" THEN bodySeed ELSE Num(DEFAULT_SEED)

\* lines 73-79: the seed of the caller-seeded group
EffectiveSeed(bodySeed) ==
    IF IsFinite(bodySeed) /\ bodySeed.k # "undef"
    THEN MathFloor(bodySeed)
    ELSE Num(DEFAULT_SEED)

\* Array.from({ length: runs }): ToLength maps NaN and values <= 0 to 0
ArrayLength(runs) ==
    IF runs.k = "fin" /\ runs.v > 0 THEN runs.v \div Scale ELSE 0

(***************************************************************************)
(* Strings are sequences of characters.                                    *)
(***************************************************************************)
IsSpace(c) == c \in {" ", "\n", "\t"}

RECURSIVE TrimStart(_)
TrimStart(s) ==
    IF s # <<>> /\ IsSpace(Head(s)) THEN TrimStart(Tail(s)) ELSE s

RECURSIVE TrimEnd(_)
TrimEnd(s) ==
    IF s # <<>> /\ IsSpace(s[Len(s)]) THEN TrimEnd(SubSeq(s, 1, Len(s) - 1)) ELSE s

\* String.prototype.trim
Trim(s) == TrimEnd(TrimStart(s))

(***************************************************************************)
(* parseEigenMessage (lines 283-299). Positions of the operators below are *)
(* those of Sequences (from 1); indexes named as in JavaScript are from 0. *)
(***************************************************************************)
EndMarker == <<"<", "|", "e", "n", "d", "|", ">">>

\* pattern occurs in s at position p
OccursAt(s, pattern, p) ==
    /\ p >= 1
    /\ p + Len(pattern) - 1 <= Len(s)
    /\ SubSeq(s, p, p + Len(pattern) - 1) = pattern

Smallest(S) == CHOOSE p \in S : \A q \in S : p <= q
Largest(S) == CHOOSE p \in S : \A q \in S : q <= p

\* String.prototype.lastIndexOf: the index of the last occurrence, or -1
LastIndexOf(s, pattern) ==
    LET at == {p \in 1 .. Len(s) : OccursAt(s, pattern, p)}
    IN  IF at = {} THEN 0 - 1 ELSE Largest(at) - 1

\* String.prototype.slice(start) for 0 <= start
Slice(s, start) == SubSeq(s, start + 1, Len(s))

\* an end-marker step that keeps the whole text
AfterEndMarker_KeepAll(trimmed) == trimmed

\* lines 289-290: lastEndTag !== -1 ? trimmed.slice(lastEndTag + 6) : trimmed
AfterEndMarker(trimmed) ==
    LET lastEndTag == LastIndexOf(trimmed, EndMarker)
    IN  IF lastEndTag # 0 - 1 THEN Slice(trimmed, lastEndTag + 6) ELSE trimmed

\* the positions at which a match of /<\|[^>]+?\|>/ that starts at p may
\* close: a "|>" after at least one character and with no ">" before it
TagCloses(s, p) ==
    {q \in (p + 3) .. (Len(s) - 1) :
        /\ s[q] = "|"
        /\ s[q + 1] = ">"
        /\ \A k \in (p + 2) .. (q - 1) : s[k] # ">"}

\* the regular expression matches at p; the lazy quantifier closes the
\* match at the first position that allows it
TagAt(s, p) == OccursAt(s, <<"<", "|">>, p) /\ TagCloses(s, p) # {}

\* replace(/<\|[^>]+?\|>/g, ""): one scan from left to right, resumed after
\* each match
RECURSIVE RemoveTagsFrom(_, _)
RemoveTagsFrom(s, p) ==
    IF p > Len(s) THEN <<>>
    ELSE IF TagAt(s, p) THEN RemoveTagsFrom(s, Smallest(TagCloses(s, p)) + 2)
    ELSE <<s[p]>> \o RemoveTagsFrom(s, p + 1)

RemoveTags(s) == RemoveTagsFrom(s, 1)

\* line.replace(/^\s*>\s?/, ""): the line's leading whitespace and ">" and
\* one whitespace character after it, when the line starts that way
StripQuote(line) ==
    LET rest == TrimStart(line)
    IN  IF rest # <<>> /\ Head(rest) = ">"
        THEN IF Len(rest) >= 2 /\ IsSpace(rest[2])
             THEN SubSeq(rest, 3, Len(rest))
             ELSE Tail(rest)
        ELSE line

\* split("\n").map(...).join("\n")
RECURSIVE MapLines(_)
MapLines(s) ==
    LET breaks == {p \in 1 .. Len(s) : s[p] = "\n"}
    IN  IF breaks = {} THEN StripQuote(s)
        ELSE LET p == Smallest(breaks)
             IN  StripQuote(SubSeq(s, 1, p - 1)) \o <<"\n">>
                    \o MapLines(SubSeq(s, p + 1, Len(s)))

\* a cleanup that does not trim its result
parseEigenMessage_Untrimmed(raw) ==
    LET trimmed == Trim(raw)
    IN  IF trimmed = <<>> THEN trimmed
        ELSE MapLines(RemoveTags(AfterEndMarker(trimmed)))

parseEigenMessage(raw) ==
    LET trimmed == Trim(raw)
    IN  IF trimmed = <<>> THEN trimmed
        ELSE Trim(MapLines(RemoveTags(AfterEndMarker(trimmed))))

(***************************************************************************)
(* uuidToSeed: a UUID is a sequence of hexadecimal digits 0..15 and        *)
(* hyphens (Hyphen).                                                       *)
(***************************************************************************)
Hyphen == 16

\* uuid.replace(/-/g, "")
RemoveHyphens(uuid) == SelectSeq(uuid, LAMBDA c : c # Hyphen)

\* Number.parseInt(hex, 16) of at most 7 digits (below 2^28)
RECURSIVE ParseHex(_)
ParseHex(hex) ==
    IF hex = <<>> THEN 0
    ELSE ParseHex(SubSeq(hex, 1, Len(hex) - 1)) * 16 + hex[Len(hex)]

\* a seed masked with 0x0fffffff
uuidToSeed_Masked28(uuid) ==
    LET digits == RemoveHyphens(uuid)
        hex == SubSeq(digits, 1, IF Len(digits) < 8 THEN Len(digits) ELSE 8)
    IN  IF Len(hex) < 8 THEN ParseHex(hex) ELSE ParseHex(SubSeq(hex, 2, 8))

\* (Number.parseInt(hex, 16) || 0) & 0x7fffffff for the first 8 digits.
\* The 32-bit value is d1 * 2^28 + rest; clearing bit 31 keeps d1 % 8 of
\* the leading digit (the value is computed in two parts because the
\* unsigned 32-bit value does not fit a signed 32-bit integer).
uuidToSeed(uuid) ==
    LET digits == RemoveHyphens(uuid)
        hex == SubSeq(digits, 1, IF Len(digits) < 8 THEN Len(digits) ELSE 8)
    IN  IF Len(hex) < 8 THEN ParseHex(hex)
        ELSE (hex[1] % 8) * 268435456 + ParseHex(SubSeq(hex, 2, 8))

(***************************************************************************)
(* The request, the configuration and the upstream services.               *)
(***************************************************************************)
Groups == {"openai", "eigen", "eigenRandom"}

NoString == [present |-> FALSE, text |-> <<>>]
Str(s) == [present |-> TRUE, text |-> s]

\* prompts a caller may send: absent, empty, whitespace only, a text
\* with surrounding whitespace
Prompts == {NoString, Str(<<>>), Str(<<" ", "\n">>), Str(<<" ", "h", "i", " ">>)}

\* values of body.runs that keep the fan-out of a group within MaxFanout
HandlerRuns ==
    {NaN, NegInf} \cup {Frac(v) : v \in (0 - Scale) .. (MaxFanout * Scale)}

\* values of body.eigenSeed: absent, a fraction, a negative fraction and the
\* non-finite values
HandlerSeeds == {Undefined, Frac(7 * Scale + 1), Frac(0 - 1), NaN, PosInf, NegInf}

\* an environment variable is unset, empty or set
Unset == "<unset>"
KeyValues == {Unset, "", "key"}

\* what randomUUID() returns in the handler specification: f47ac10b-58cc-4372-a567-
\* 0e02b2c3d479, whose leading word has bit 31 set
UUIDs ==
    { <<15,4,7,10,12,1,0,11, 16, 5,8,12,12, 16, 4,3,7,2, 16, 10,5,6,7, 16, 0,14,0,2,11,2,12,3,13,4,7,9>> }
NoUuid == <<>>

\* status and body an upstream service may answer a failed call with
Failures == {[status |-> "429", body |-> "quota"], [status |-> "500", body |-> "secret"]}

VARIABLES
    req,            \* the request: raw body kind and the fields of its JSON
    env,            \* process.env: the two credentials
    pc,             \* POST: "start", "awaiting" (at the await of line 96), "done"
    prompt,         \* POST's local: the trimmed prompt
    runs,           \* POST's local: the effective run count
    eigenSeed,      \* POST's local: the seed of the caller-seeded group
    randomSeedUuid, \* POST's local
    randomSeed,     \* POST's local
    issued,         \* per group, the upstream requests sent, in issue order
    call,           \* per group and run, the state of that run's promise
    timer,          \* per OpenAI run, its timeout timer
    values,         \* per group, the result slots of its Promise.all
    settled,        \* per group, the state of its Promise.all
    sent,           \* the responses returned to the caller
    logged,         \* console.error / console.warn output
    descending,     \* history: no run has failed and every fulfilment so far came
                    \* in descending run order (the last run of a group first)
    cleanup,        \* a text given to parseEigenMessage and what it returned
    derived,        \* a UUID given to uuidToSeed and what it returned
    view            \* src/app/page.tsx: the state of Home and its requests in flight

vars == <<req, env, pc, prompt, runs, eigenSeed, randomSeedUuid, randomSeed,
          issued, call, timer, values, settled, sent, logged, descending,
          cleanup, derived, view>>

\* the variables of the handler
handler == <<req, env, pc, prompt, runs, eigenSeed, randomSeedUuid, randomSeed,
             issued, call, timer, values, settled, sent, logged, descending>>

\* the variables of the specifications of the two pure functions
pure == <<cleanup, derived>>

locals == <<prompt, runs, eigenSeed, randomSeedUuid, randomSeed, issued>>

(***************************************************************************)
(* safeJson and the first lines of POST.                                   *)
(***************************************************************************)
\* what `(await safeJson(request)) ?? {}` gives: the fields of the body, or
\* threw = TRUE when the awaited promise rejects
EmptyBody ==
    [threw |-> FALSE, prompt |-> NoString, runs |-> Undefined, eigenSeed |-> Undefined]
Thrown ==
    [threw |-> TRUE, prompt |-> NoString, runs |-> Undefined, eigenSeed |-> Undefined]

\* a safeJson without its catch block: the error of JSON.parse escapes
safeJson_NoCatch(r) ==
    CASE r.raw = "json" ->
           [threw |-> FALSE, prompt |-> r.prompt, runs |-> r.runs, eigenSeed |-> r.eigenSeed]
      [] r.raw = "empty" -> EmptyBody
      [] OTHER -> Thrown

\* safeJson(request) ?? {}: an empty text and a text that does not parse
\* both give undefined
safeJson(r) ==
    IF r.raw = "json"
    THEN [threw |-> FALSE, prompt |-> r.prompt, runs |-> r.runs, eigenSeed |-> r.eigenSeed]
    ELSE EmptyBody

\* the prompt taken without trimming
TrimmedPrompt_NoTrim(body) == body.prompt

\* body.prompt?.trim()
TrimmedPrompt(body) ==
    IF body.prompt.present THEN Str(Trim(body.prompt.text)) ELSE NoString

\* !prompt (line 45): undefined or the empty string
PromptMissing(p) == ~p.present \/ p.text = <<>>

\* a check that takes only the empty string for a missing key
KeyMissing_EmptyOnly(key) == key = ""

\* !openaiKey, !eigenKey (lines 55, 62): undefined or the empty string
KeyMissing(key) == key = Unset \/ key = ""

(***************************************************************************)
(* Responses.                                                              *)
(***************************************************************************)
ErrorResponse(status, message) ==
    [status |-> status, error |-> message, result |-> <<>>]

PromptRequired == ErrorResponse(400, <<"Prompt is required.">>)
MissingOpenAiKey == ErrorResponse(500, <<"Missing ", "OPENAI_API_KEY", " environment variable.">>)
MissingEigenKey == ErrorResponse(500, <<"Missing ", "EIGENAI_API_KEY", " environment variable.">>)
\* the await of line 42 is outside the try block of line 95: an error thrown
\* there rejects POST and the framework answers for it
Unhandled == ErrorResponse(500, <<"Internal Server Error">>)

\* the text of a thrown error
HttpError(provider, status, body) ==
    [kind |-> "http", message |-> <<provider, " HTTP ", status, ": ", body>>]
NetworkError == [kind |-> "network", message |-> <<"fetch failed">>]
AbortError == [kind |-> "abort", message |-> <<"This operation was aborted">>]

\* a catch block that returns the text of the error it caught
CatchResponse_Leak(error) == ErrorResponse(500, error.message)

\* lines 132-138: the catch block of POST
CatchResponse(error) ==
    ErrorResponse(500, <<"Failed to compare models. Check server logs for details.">>)

\* an integer held exactly (the seed derived from a UUID needs 31 bits)
IntNum(n) == [k |-> "int", v |-> n]

(***************************************************************************)
(* Promise.all: result slots filled by run index, fulfilled when no slot   *)
(* is empty, rejected by the first rejection.                              *)
(***************************************************************************)
Empty == [responseId |-> 0]

\* the reply of the upstream service to the i-th request of group g
UpstreamReply(g, i) == [id |-> i]

\* lines 177-182 and 260-265: the run result built from a reply
RunResult(reply) == [responseId |-> reply.id]

\* results collected in completion order: stored in the first empty slot
PromiseAllStore_CompletionOrder(vals, index, value) ==
    LET free == CHOOSE k \in 1 .. Len(vals) :
                    /\ vals[k] = Empty
                    /\ \A j \in 1 .. (k - 1) : vals[j] # Empty
    IN  [vals EXCEPT ![free] = value]

\* the resolve-element function of Promise.all stores at the promise's index
PromiseAllStore(vals, index, value) == [vals EXCEPT ![index] = value]

\* remainingElementsCount = 0
PromiseAllFulfilled(vals) == \A k \in 1 .. Len(vals) : vals[k] # Empty

\* the state of a Promise.all after one of its promises is fulfilled
AfterFulfil(state, vals) ==
    IF state = "pending" /\ PromiseAllFulfilled(vals) THEN "fulfilled" ELSE state

\* a join that swallows rejections
AfterReject_Swallowed(state) == state

\* the state of a Promise.all after one of its promises is rejected
AfterReject(state) == IF state = "pending" THEN "rejected" ELSE state

\* the Promise.all of line 96 over the three groups
JoinFulfilled(s) == \A g \in Groups : s[g] = "fulfilled"
\* a join that waits for every group to settle before it rejects
JoinRejected_WhenAllSettled(s) ==
    /\ \E g \in Groups : s[g] = "rejected"
    /\ \A g \in Groups : s[g] # "pending"

JoinRejected(s) == \E g \in Groups : s[g] = "rejected"

\* POST is suspended at the await of line 96
HandlerAwaiting(p) == p = "awaiting"

(***************************************************************************)
(* collectOpenAiRuns / collectEigenRuns: what a group reports.             *)
(***************************************************************************)
OpenAiGroup(r, vals) ==
    [model |-> OPENAI_MODEL, runs |-> r, responses |-> vals]

EigenGroup(seed, r, vals, seedUuid) ==
    [model |-> EIGENAI_MODEL, seed |-> seed, runs |-> r, responses |-> vals,
     seedUuid |-> seedUuid]

\* lines 126-131: the 200 response
SuccessResponse(p, r, seed, uuid, rseed, vals) ==
    [status |-> 200, error |-> <<>>,
     result |-> << [prompt |-> p,
                    openai |-> OpenAiGroup(r, vals["openai"]),
                    eigen |-> EigenGroup(seed, r, vals["eigen"], NoUuid),
                    eigenRandom |-> EigenGroup(rseed, r, vals["eigenRandom"], uuid)] >>]

\* both EigenAI groups sent with the caller's seed
UpstreamRequest_CallerSeed(g, p, seed, rseed) ==
    IF g = "openai"
    THEN [provider |-> "OpenAI", model |-> OPENAI_MODEL, prompt |-> p, seed |-> Undefined]
    ELSE [provider |-> "EigenAI", model |-> EIGENAI_MODEL, prompt |-> p, seed |-> seed]

\* the request bodies sent upstream (lines 162-167, 246-251)
UpstreamRequest(g, p, seed, rseed) ==
    CASE g = "openai" ->
           [provider |-> "OpenAI", model |-> OPENAI_MODEL, prompt |-> p, seed |-> Undefined]
      [] g = "eigen" ->
           [provider |-> "EigenAI", model |-> EIGENAI_MODEL, prompt |-> p, seed |-> seed]
      [] OTHER ->
           [provider |-> "EigenAI", model |-> EIGENAI_MODEL, prompt |-> p, seed |-> rseed]

\* a run without a timeout: its timer is never armed
ArmTimer_Unarmed == [st |-> "cleared", ms |-> OPENAI_TIMEOUT_MS]

\* a timer armed with the delay taken for seconds
ArmTimer_Seconds == [st |-> "armed", ms |-> 20]

\* line 153: setTimeout(() => controller.abort(), OPENAI_TIMEOUT_MS)
ArmTimer == [st |-> "armed", ms |-> OPENAI_TIMEOUT_MS]
\* a run that never clears its timer
ClearTimer_Forgotten(t) == t

\* line 184: clearTimeout(timeout); a timer that has fired stays fired
ClearTimer(t) == IF t.st = "armed" THEN [t EXCEPT !.st = "cleared"] ELSE t

(***************************************************************************)
(* Initial states: a request has arrived and POST has not run yet.         *)
(***************************************************************************)
\* every prompt with every run count; every seed with two runs per group;
\* a body that is empty and one that is not JSON
Requests ==
    {[raw |-> "json", prompt |-> p, runs |-> r, eigenSeed |-> Undefined] :
        p \in Prompts, r \in HandlerRuns}
    \cup {[raw |-> "json", prompt |-> Str(<<"h", "i">>), runs |-> Num(MIN_RUNS + 1),
           eigenSeed |-> s] : s \in HandlerSeeds}
    \cup {[raw |-> k, prompt |-> NoString, runs |-> Undefined, eigenSeed |-> Undefined] :
            k \in {"empty", "malformed"}}

Environments == {[openaiKey |-> a, eigenKey |-> b] : a \in KeyValues, b \in KeyValues}

Idle ==
    /\ pc = "start"
    /\ prompt = NoString
    /\ runs = Undefined
    /\ eigenSeed = Undefined
    /\ randomSeedUuid = NoUuid
    /\ randomSeed = Undefined
    /\ issued = [g \in Groups |-> <<>>]
    /\ call = [g \in Groups |-> <<>>]
    /\ timer = <<>>
    /\ values = [g \in Groups |-> <<>>]
    /\ settled = [g \in Groups |-> "pending"]
    /\ sent = <<>>
    /\ logged = <<>>
    /\ descending = TRUE

\* no text has been given to parseEigenMessage, no UUID to uuidToSeed
NoCleanup == [pc |-> "none", raw |-> <<>>, once |-> <<>>, twice |-> <<>>]
NoDerived == [pc |-> "none", uuid |-> <<>>, seed |-> 0]
\* the page is not mounted
NoView == [last |-> "unmounted"]

Init ==
    /\ req \in Requests
    /\ env \in Environments
    /\ Idle
    /\ cleanup = NoCleanup
    /\ derived = NoDerived
    /\ view = NoView

(***************************************************************************)
(* POST, from the arrival of the request to the await of line 96 (or to    *)
(* the response, when POST returns early or has nothing to wait for).      *)
(***************************************************************************)
\* calls issued per group: Array.from({ length: runs }, ...)
FanOut(r) == ArrayLength(r)

EarlyReturn(p, response) ==
    /\ prompt' = p
    /\ sent' = Append(sent, response)
    /\ pc' = "done"
    /\ UNCHANGED <<runs, eigenSeed, randomSeedUuid, randomSeed, issued, call,
                   timer, values, settled>>

Compare(p, body, uuid) ==
    LET r == EffectiveRuns(body.runs)
        seed == EffectiveSeed(body.eigenSeed)
        rseed == IntNum(uuidToSeed(uuid))
        n == FanOut(r)
        vals == [g \in Groups |-> [i \in 1 .. n |-> Empty]]
        state == [g \in Groups |-> AfterFulfil("pending", vals[g])]
    IN  /\ prompt' = p
        /\ runs' = r
        /\ eigenSeed' = seed
        /\ randomSeedUuid' = uuid
        /\ randomSeed' = rseed
        /\ issued' = [g \in Groups |->
                        [i \in 1 .. n |-> UpstreamRequest(g, p.text, seed, rseed)]]
        /\ call' = [g \in Groups |-> [i \in 1 .. n |-> "fetch"]]
        /\ timer' = [i \in 1 .. n |-> ArmTimer]
        /\ values' = vals
        /\ settled' = state
        /\ IF JoinFulfilled(state)
           THEN /\ sent' = Append(sent, SuccessResponse(p.text, r, seed, uuid, rseed, vals))
                /\ pc' = "done"
           ELSE /\ sent' = sent
                /\ pc' = "awaiting"

\* a POST that reads the credentials before it looks at the prompt
POST_CredentialsFirst ==
    /\ pc = "start"
    /\ logged' = IF req.raw = "malformed"
                 THEN Append(logged, [kind |-> "warn", message |-> <<"Failed to parse JSON body:">>])
                 ELSE logged
    /\ LET body == safeJson(req)
           p == TrimmedPrompt(body)
       IN  IF body.threw THEN EarlyReturn(p, Unhandled)
           ELSE IF KeyMissing(env.openaiKey) THEN EarlyReturn(p, MissingOpenAiKey)
           ELSE IF KeyMissing(env.eigenKey) THEN EarlyReturn(p, MissingEigenKey)
           ELSE IF PromptMissing(p) THEN EarlyReturn(p, PromptRequired)
           ELSE \E uuid \in UUIDs : Compare(p, body, uuid)
    /\ UNCHANGED <<req, env, descending, pure, view>>

POST ==
    /\ pc = "start"
    /\ logged' = IF req.raw = "malformed"
                 THEN Append(logged, [kind |-> "warn", message |-> <<"Failed to parse JSON body:">>])
                 ELSE logged
    /\ LET body == safeJson(req)
           p == TrimmedPrompt(body)
       IN  IF body.threw THEN EarlyReturn(p, Unhandled)
           ELSE IF PromptMissing(p) THEN EarlyReturn(p, PromptRequired)
           ELSE IF KeyMissing(env.openaiKey) THEN EarlyReturn(p, MissingOpenAiKey)
           ELSE IF KeyMissing(env.eigenKey) THEN EarlyReturn(p, MissingEigenKey)
           ELSE \E uuid \in UUIDs : Compare(p, body, uuid)
    /\ UNCHANGED <<req, env, descending, pure, view>>

(***************************************************************************)
(* The settlement of one run's promise and the reactions it triggers: the  *)
(* group's Promise.all, the Promise.all of line 96 and, the first time,    *)
(* the rest of POST.                                                        *)
(***************************************************************************)
Fulfil(g, i) ==
    LET vals == [values EXCEPT ![g] = PromiseAllStore(values[g], i, RunResult(UpstreamReply(g, i)))]
        state == [settled EXCEPT ![g] = AfterFulfil(settled[g], vals[g])]
    IN  /\ call' = [call EXCEPT ![g][i] = "fulfilled"]
        /\ values' = vals
        /\ settled' = state
        /\ descending' = (descending /\ \A k \in (i + 1) .. Len(call[g]) : call[g][k] = "fulfilled")
        /\ IF HandlerAwaiting(pc) /\ JoinFulfilled(state)
           THEN /\ sent' = Append(sent, SuccessResponse(prompt.text, runs, eigenSeed,
                                                        randomSeedUuid, randomSeed, vals))
                /\ pc' = "done"
           ELSE UNCHANGED <<sent, pc>>
        /\ UNCHANGED <<req, env, locals, logged, pure, view>>

Reject(g, i, error) ==
    LET state == [settled EXCEPT ![g] = AfterReject(settled[g])]
    IN  /\ call' = [call EXCEPT ![g][i] = "rejected"]
        /\ settled' = state
        /\ IF HandlerAwaiting(pc) /\ JoinRejected(state)
           THEN /\ logged' = Append(logged, error)
                /\ sent' = Append(sent, CatchResponse(error))
                /\ pc' = "done"
           ELSE UNCHANGED <<logged, sent, pc>>
        /\ descending' = FALSE
        /\ UNCHANGED <<req, env, locals, values, pure, view>>

Pending(phase) == phase \in {"fetch", "body"}

(***************************************************************************)
(* One run of collectOpenAiRuns (lines 151-186).                           *)
(***************************************************************************)
Runs(g) == 1 .. Len(call[g])

\* fetch resolves with the response's status line and headers
OpenAiFetchResolve(i) ==
    /\ call["openai"][i] = "fetch"
    /\ call' = [call EXCEPT !["openai"][i] = "body"]
    /\ UNCHANGED <<req, env, pc, locals, timer, values, settled, sent, logged, descending, pure, view>>

\* response.ok: the body is read and parsed, the run's result is returned
OpenAiFulfil(i) ==
    /\ call["openai"][i] = "body"
    /\ timer' = [timer EXCEPT ![i] = ClearTimer(@)]
    /\ Fulfil("openai", i)

\* !response.ok: the body is read as text and the error is thrown
OpenAiHttpError(i) ==
    /\ call["openai"][i] = "body"
    /\ timer' = [timer EXCEPT ![i] = ClearTimer(@)]
    /\ \E f \in Failures : Reject("openai", i, HttpError("OpenAI", f.status, f.body))

\* fetch, response.text() or response.json() rejects
OpenAiNetworkError(i) ==
    /\ Pending(call["openai"][i])
    /\ timer' = [timer EXCEPT ![i] = ClearTimer(@)]
    /\ Reject("openai", i, NetworkError)

\* the timer of run i fires: controller.abort() rejects the pending fetch
\* or body read of that run
OpenAiTimeout(i) ==
    /\ timer[i].st = "armed"
    /\ timer' = [timer EXCEPT ![i].st = "fired"]
    /\ IF Pending(call["openai"][i])
       THEN Reject("openai", i, AbortError)
       ELSE UNCHANGED <<req, env, pc, locals, call, values, settled, sent, logged, descending, pure, view>>

(***************************************************************************)
(* callEigenAiRun (lines 231-266).                                         *)
(***************************************************************************)
EigenGroups == {"eigen", "eigenRandom"}

EigenFulfil(g, i) ==
    /\ call[g][i] = "fetch"
    /\ Fulfil(g, i)
    /\ UNCHANGED timer

EigenHttpError(g, i) ==
    /\ call[g][i] = "fetch"
    /\ \E f \in Failures : Reject(g, i, HttpError("EigenAI", f.status, f.body))
    /\ UNCHANGED timer

EigenNetworkError(g, i) ==
    /\ call[g][i] = "fetch"
    /\ Reject(g, i, NetworkError)
    /\ UNCHANGED timer

Next ==
    \/ POST
    \/ \E i \in Runs("openai") : OpenAiFetchResolve(i)
    \/ \E i \in Runs("openai") : OpenAiFulfil(i)
    \/ \E i \in Runs("openai") : OpenAiHttpError(i)
    \/ \E i \in Runs("openai") : OpenAiNetworkError(i)
    \/ \E i \in Runs("openai") : OpenAiTimeout(i)
    \/ \E g \in EigenGroups : \E i \in Runs(g) : EigenFulfil(g, i)
    \/ \E g \in EigenGroups : \E i \in Runs(g) : EigenHttpError(g, i)
    \/ \E g \in EigenGroups : \E i \in Runs(g) : EigenNetworkError(g, i)

Spec == Init /\ [][Next]_vars

(***************************************************************************)
(* The handler under fair scheduling. The event loop runs POST once the    *)
(* request has arrived and runs the callback of a timer that stays armed   *)
(* (FairTimers). FairEigen is the assumption that every call to EigenAI    *)
(* eventually settles; callEigenAiRun has no timeout of its own. Nothing   *)
(* is assumed of the answers of OpenAI.                                    *)
(***************************************************************************)
\* the requests that leave the seed to the default
LiveRequests == {r \in Requests : r.eigenSeed = Undefined}

InitLive ==
    /\ req \in LiveRequests
    /\ env \in Environments
    /\ Idle
    /\ cleanup = NoCleanup
    /\ derived = NoDerived
    /\ view = NoView

\* the event loop runs POST once the request has arrived, and the callback
\* of every timer that stays armed
FairTimers ==
    /\ WF_vars(POST)
    /\ \A i \in 1 .. MaxFanout : WF_vars(i \in Runs("openai") /\ OpenAiTimeout(i))

\* the settlement of one call to EigenAI
EigenSettle(g, i) == EigenFulfil(g, i) \/ EigenHttpError(g, i) \/ EigenNetworkError(g, i)

\* every call to EigenAI eventually settles
FairEigen ==
    \A g \in EigenGroups : \A i \in 1 .. MaxFanout :
        WF_vars(i \in Runs(g) /\ EigenSettle(g, i))

SpecLive == InitLive /\ [][Next]_vars /\ FairTimers /\ FairEigen

(***************************************************************************)
(* The run-count specification: POST alone, for requests that pass the     *)
(* gates, with `runs` and `eigenSeed` drawn from a wide range. The         *)
(* behaviours are those of Spec in which no upstream service has answered  *)
(* yet.                                                                    *)
(***************************************************************************)
AllRuns ==
    {Undefined, NaN, PosInf, NegInf}
    \cup {Frac(v) : v \in (0 - MaxRunsInput * Scale) .. (MaxRunsInput * Scale)}

RunsRequests ==
    {[raw |-> "json", prompt |-> Str(<<"h", "i">>), runs |-> r, eigenSeed |-> s] :
        r \in AllRuns, s \in HandlerSeeds}

InitRuns ==
    /\ req \in RunsRequests
    /\ env = [openaiKey |-> "key", eigenKey |-> "key"]
    /\ Idle
    /\ cleanup = NoCleanup
    /\ derived = NoDerived
    /\ view = NoView

SpecRuns == InitRuns /\ [][POST]_vars

(***************************************************************************)
(* The cleanup specification: parseEigenMessage is applied to a text and   *)
(* then to its own result. The texts are the ones the specification of the *)
(* program names and every sequence of at most MaxPieces pieces.           *)
(***************************************************************************)
Pieces ==
    { EndMarker, <<"<", "|">>, <<"|", ">">>, <<">">>, <<"a">>, <<" ">>, <<"\n">> }

RECURSIVE Flatten(_)
Flatten(ps) == IF ps = <<>> THEN <<>> ELSE Head(ps) \o Flatten(Tail(ps))

\* "  <|start|>Hello<|end|> World  "
TaggedText ==
    <<" ", " ", "<", "|", "s", "t", "a", "r", "t", "|", ">", "H", "e", "l", "l", "o",
      "<", "|", "e", "n", "d", "|", ">", " ", "W", "o", "r", "l", "d", " ", " ">>
\* "> quoted line\nplain line"
QuotedText ==
    <<">", " ", "q", "u", "o", "t", "e", "d", " ", "l", "i", "n", "e", "\n",
      "p", "l", "a", "i", "n", " ", "l", "i", "n", "e">>

\* "<<|a|>|b|>": a tag inside the opening of another
NestedText == <<"<", "<", "|", "a", "|", ">", "|", "b", "|", ">">>

CleanupInputs ==
    {TaggedText, QuotedText, NestedText, <<" ", "\t", "\n">>}
    \cup {Flatten(ps) : ps \in UNION {[1 .. n -> Pieces] : n \in 0 .. MaxPieces}}

InitCleanup ==
    /\ req \in {r \in Requests : r.raw = "empty"}
    /\ env = [openaiKey |-> "key", eigenKey |-> "key"]
    /\ Idle
    /\ cleanup \in {[pc |-> "raw", raw |-> s, once |-> <<>>, twice |-> <<>>] :
                        s \in CleanupInputs}
    /\ derived = NoDerived
    /\ view = NoView

CleanOnce ==
    /\ cleanup.pc = "raw"
    /\ cleanup' = [cleanup EXCEPT !.pc = "once", !.once = parseEigenMessage(cleanup.raw)]
    /\ UNCHANGED <<handler, derived, view>>

CleanTwice ==
    /\ cleanup.pc = "once"
    /\ cleanup' = [cleanup EXCEPT !.pc = "twice", !.twice = parseEigenMessage(cleanup.once)]
    /\ UNCHANGED <<handler, derived, view>>

NextCleanup == CleanOnce \/ CleanTwice

SpecCleanup == InitCleanup /\ [][NextCleanup]_vars

(***************************************************************************)
(* The seed specification: uuidToSeed is applied to a UUID. The UUIDs are  *)
(* version-4 shaped (8-4-4-4-12) and differ in their first eight digits.   *)
(***************************************************************************)
SeedUuids ==
    { <<a, b, 7, 10, 12, c, 0, d, Hyphen, 5, 8, 12, 12, Hyphen, 4, 3, 7, 2, Hyphen,
        10, 5, 6, 7, Hyphen, 0, 14, 0, 2, 11, 2, 12, 3, 13, 4, 7, 9>> :
        a \in 0 .. 15, b \in {0, 15}, c \in {1, 15}, d \in {0, 11, 15} }
    \cup { <<a, a, a, a, a, a, a, a, Hyphen, 0, 0, 0, 0, Hyphen, 4, 0, 0, 0, Hyphen,
             8, 0, 0, 0, Hyphen, 0, 0, 0, 0, 0, 0, 0, 0, 0, 0, 0, 0>> : a \in {0, 15} }

InitSeed ==
    /\ req \in {r \in Requests : r.raw = "empty"}
    /\ env = [openaiKey |-> "key", eigenKey |-> "key"]
    /\ Idle
    /\ cleanup = NoCleanup
    /\ derived \in {[pc |-> "uuid", uuid |-> u, seed |-> 0] : u \in SeedUuids}
    /\ view = NoView

DeriveSeed ==
    /\ derived.pc = "uuid"
    /\ derived' = [derived EXCEPT !.pc = "seed", !.seed = uuidToSeed(derived.uuid)]
    /\ UNCHANGED <<handler, cleanup, view>>

SpecSeed == InitSeed /\ [][DeriveSeed]_vars

(***************************************************************************)
(* The page, src/app/page.tsx: the state of the component Home and the     *)
(* comparison requests it has in flight. React applies the state updates   *)
(* of one event handler (or of one continuation of handleSubmit) together, *)
(* so an action is one event with all its setState calls.                  *)
(***************************************************************************)
\* the characters typed into the run-count field
InputChars == {"2", "9", "-", "a"}
RECURSIVE StringsUpTo(_)
StringsUpTo(n) ==
    IF n = 0 THEN {<<>>}
    ELSE LET shorter == StringsUpTo(n - 1)
         IN shorter \cup {Append(s, c) : s \in shorter, c \in InputChars}
RunsInputs == StringsUpTo(MaxInputLen)
SeedInputs == {<<"a">>, <<"0">>}

Digits == <<"0", "1", "2", "3", "4", "5", "6", "7", "8", "9">>
IsDigit(c) == \E d \in 1 .. 10 : Digits[d] = c
DigitValue(c) == (CHOOSE d \in 1 .. 10 : Digits[d] = c) - 1
RECURSIVE DigitsPrefix(_)
DigitsPrefix(s) ==
    IF s # <<>> /\ IsDigit(Head(s)) THEN <<Head(s)>> \o DigitsPrefix(Tail(s)) ELSE <<>>
RECURSIVE DecimalValue(_)
DecimalValue(ds) ==
    IF ds = <<>> THEN 0
    ELSE DecimalValue(SubSeq(ds, 1, Len(ds) - 1)) * 10 + DigitValue(ds[Len(ds)])

\* Number.parseInt(s, 10): leading white space, an optional sign, the
\* longest run of digits; NaN when there is no digit
parseInt(s) ==
    LET t == TrimStart(s)
        signed == t # <<>> /\ Head(t) \in {"-", "+"}
        ds == DigitsPrefix(IF signed THEN Tail(t) ELSE t)
    IN  IF ds = <<>> THEN NaN
        ELSE IF Head(t) = "-" THEN Num(0 - DecimalValue(ds))
        ELSE Num(DecimalValue(ds))

\* String(n) of an integer
RECURSIVE DecimalDigits(_)
DecimalDigits(n) ==
    IF n < 10 THEN <<Digits[n + 1]>>
    ELSE DecimalDigits(n \div 10) \o <<Digits[(n % 10) + 1]>>
NumberToString(x) ==
    LET n == x.v \div Scale
    IN  IF n < 0 THEN <<"-">> \o DecimalDigits(0 - n) ELSE DecimalDigits(n)

defaultPrompt == "What are the top 5 restaurants in Tokyo? Names only in a comma separated list."
ViewPrompts == {defaultPrompt, ""}
EnvSeeds == {<<>>, <<"7">>}
defaultSeed(envSeed) == IF parseInt(envSeed).k = "nan" THEN Num(42) ELSE parseInt(envSeed)
defaultRuns == MathMin(Num(4), Num(MAX_RUNS))

\* error and result: null or a value
NoError == [null |-> TRUE, message |-> ""]
Error(message) == [null |-> FALSE, message |-> message]
NoResult == [null |-> TRUE, prompt |-> ""]
CompareResult(request) == [null |-> FALSE, prompt |-> request.prompt]

\* the state of Home after its first render
Mounted(envSeed) ==
    [last      |-> "mount",
     envSeed   |-> envSeed,
     prompt    |-> defaultPrompt,
     runs      |-> defaultRuns,
     runsInput |-> NumberToString(defaultRuns),
     eigenSeed |-> defaultSeed(envSeed),
     isLoading |-> FALSE,
     error     |-> NoError,
     result    |-> NoResult,
     inflight  |-> <<>>]

Disabled_Never(v) == FALSE
\* the disabled attribute of the submit button and of the Reset button
Disabled(v) == v.isLoading
\* the Reset button is rendered when there is a result or an error
ResetShown(v) == ~v.result.null \/ ~v.error.null

handleReset(v) ==
    [v EXCEPT !.prompt = defaultPrompt,
              !.runs = defaultRuns,
              !.runsInput = NumberToString(defaultRuns),
              !.eigenSeed = defaultSeed(v.envSeed),
              !.result = NoResult,
              !.error = NoError]

\* handleSubmit up to its first await: the request leaves with the state
\* of this render
SubmitStart(v) ==
    [v EXCEPT !.isLoading = TRUE,
              !.error = NoError,
              !.inflight = Append(@, [prompt |-> v.prompt, runs |-> v.runs,
                                      eigenSeed |-> v.eigenSeed])]
\* the rest of handleSubmit: the try block ran to its end, or the catch
\* block ran; then the finally block
OnSuccess(v, payload) == [v EXCEPT !.result = payload, !.isLoading = FALSE]
OnFailure_KeepResult(v, message) ==
    [v EXCEPT !.error = Error(message), !.isLoading = FALSE]
OnFailure(v, message) ==
    [v EXCEPT !.error = Error(message), !.result = NoResult, !.isLoading = FALSE]

\* payload?.error || "Request failed."
ErrorMessage(answer) == IF answer.error # "" THEN answer.error ELSE "Request failed."
\* what the endpoint answers: ok, or not ok with or without an error text
Answers ==
    {[ok |-> TRUE, error |-> ""],
     [ok |-> FALSE, error |-> "Prompt is required."],
     [ok |-> FALSE, error |-> ""]}

Without(s, i) == SubSeq(s, 1, i - 1) \o SubSeq(s, i + 1, Len(s))

clampRuns_Unclamped(parsed) == parsed
clampRuns(parsed) == MathMin(MathMax(parsed, Num(MIN_RUNS)), Num(MAX_RUNS))

\* onChange of the run-count field
RunsChange(v, value) ==
    IF value = <<>> THEN [v EXCEPT !.runsInput = <<>>]
    ELSE LET parsed == parseInt(value)
         IN  IF parsed.k = "nan" THEN v
             ELSE [v EXCEPT !.runsInput = NumberToString(clampRuns(parsed)),
                            !.runs = clampRuns(parsed)]
\* onBlur of the run-count field
RunsBlur(v) ==
    IF v.runsInput = <<>> \/ parseInt(v.runsInput).k = "nan"
    THEN [v EXCEPT !.runs = Num(MIN_RUNS), !.runsInput = NumberToString(Num(MIN_RUNS))]
    ELSE [v EXCEPT !.runs = clampRuns(parseInt(v.runsInput)),
                   !.runsInput = NumberToString(clampRuns(parseInt(v.runsInput)))]
\* onChange of the seed field: Number.parseInt(value, 10) || 0
SeedChange(v, value) ==
    [v EXCEPT !.eigenSeed = IF parseInt(value).k = "nan" THEN Num(0) ELSE parseInt(value)]

InitView ==
    /\ req \in {r \in Requests : r.raw = "empty"}
    /\ env = [openaiKey |-> "key", eigenKey |-> "key"]
    /\ Idle
    /\ cleanup = NoCleanup
    /\ derived = NoDerived
    /\ \E envSeed \in EnvSeeds : view = Mounted(envSeed)

Event(name, v) ==
    /\ view.last # "unmounted"
    /\ view' = [v EXCEPT !.last = name]
    /\ UNCHANGED <<handler, pure>>

Submit == ~Disabled(view) /\ Event("submit", SubmitStart(view))
Reset == ~Disabled(view) /\ ResetShown(view) /\ Event("reset", handleReset(view))
Respond ==
    \E i \in 1 .. Len(view.inflight) : \E answer \in Answers :
        LET v == [view EXCEPT !.inflight = Without(@, i)]
        IN  IF answer.ok
            THEN Event("success", OnSuccess(v, CompareResult(view.inflight[i])))
            ELSE Event("failure", OnFailure(v, ErrorMessage(answer)))
\* fetch rejects, or response.json() rejects
RequestThrows ==
    \E i \in 1 .. Len(view.inflight) :
        Event("failure", OnFailure([view EXCEPT !.inflight = Without(@, i)], "Failed to fetch"))
ChangePrompt == \E value \in ViewPrompts : Event("prompt", [view EXCEPT !.prompt = value])
ChangeRuns == \E value \in RunsInputs : Event("change", RunsChange(view, value))
BlurRuns == Event("blur", RunsBlur(view))
ChangeSeed == \E value \in SeedInputs : Event("seed", SeedChange(view, value))

NextView ==
    \/ Submit
    \/ Reset
    \/ Respond
    \/ RequestThrows
    \/ ChangePrompt
    \/ ChangeRuns
    \/ BlurRuns
    \/ ChangeSeed

SpecView == InitView /\ [][NextView]_vars

(***************************************************************************)
(* Properties.                                                             *)
(***************************************************************************)
\* the state of run i of group g, "none" before the call is issued
CallState(g, i) == IF i <= Len(call[g]) THEN call[g][i] ELSE "none"
Failed(g, i) == CallState(g, i) = "rejected"
SomeCallFailed == \E g \in Groups : \E i \in 1 .. Len(call[g]) : Failed(g, i)

\* the request as the claims describe it, read off the request itself
Whitespace == {" ", "\n", "\t"}
PromptBlank ==
    \/ req.raw # "json"
    \/ ~req.prompt.present
    \/ \A k \in 1 .. Len(req.prompt.text) : req.prompt.text[k] \in Whitespace
CredentialsPresent == env.openaiKey \notin {Unset, ""} /\ env.eigenKey \notin {Unset, ""}
Accepted == ~PromptBlank /\ CredentialsPresent

FailureText == <<"Failed to compare models. Check server logs for details.">>

\* C1. All-or-nothing: a 200 response is returned only when every issued
\* upstream call has succeeded, and as soon as any call of any group has
\* failed the one response is a 500 error that carries no result of any
\* group.
C1_AllOrNothing ==
    /\ \A k \in 1 .. Len(sent) :
          sent[k].status = 200 =>
             /\ \A g \in Groups : \A i \in 1 .. Len(call[g]) : call[g][i] = "fulfilled"
             /\ \A g \in Groups : Len(call[g]) = Len(issued[g])
    /\ SomeCallFailed =>
          /\ Len(sent) = 1
          /\ sent[1].status = 500
          /\ sent[1].result = <<>>

\* a failed comparison in which all the calls of some group succeeded
C1_Witness ==
    /\ Len(sent) = 1
    /\ sent[1].status = 500
    /\ sent[1].result = <<>>
    /\ \E g \in Groups :
          /\ Len(call[g]) >= 2
          /\ \A i \in 1 .. Len(call[g]) : call[g][i] = "fulfilled"

\* C2. Run-index ordering: in every 200 response, responses[i] of each
\* group is the result of the i-th issued run of that group, whatever the
\* order in which the runs completed; a filled result slot always holds
\* the result of the run with the slot's index.
C2_RunIndexOrdering ==
    /\ \A g \in Groups : \A i \in 1 .. Len(values[g]) :
          values[g][i] # [responseId |-> 0] => values[g][i].responseId = i
    /\ \A k \in 1 .. Len(sent) :
          sent[k].status = 200 =>
             LET r == sent[k].result[1]
                 group == [g \in Groups |->
                             CASE g = "openai" -> r.openai.responses
                               [] g = "eigen" -> r.eigen.responses
                               [] OTHER -> r.eigenRandom.responses]
             IN  \A g \in Groups :
                    /\ Len(group[g]) = Len(issued[g])
                    /\ \A i \in 1 .. Len(group[g]) : group[g][i].responseId = i

\* a 200 response of a comparison whose runs completed in fully reversed
\* order in every group
C2_Witness ==
    /\ Len(sent) = 1
    /\ sent[1].status = 200
    /\ descending
    /\ \A g \in Groups : Len(call[g]) = MaxFanout
    /\ MaxFanout >= 2

\* C3. Fan-out count: once a request has passed the prompt and credential
\* gates, its effective run count is a number N and exactly N calls have
\* been issued to each of the three groups (OpenAI without a seed, EigenAI
\* with the caller/default seed, EigenAI with the derived seed), and no
\* further call is ever issued.
C3_FanOut ==
    (pc # "start" /\ Accepted) =>
        /\ runs.k = "fin"
        /\ \A g \in Groups : Len(issued[g]) * Scale = runs.v
        /\ \A i \in 1 .. Len(issued["openai"]) : issued["openai"][i].provider = "OpenAI"
        /\ \A i \in 1 .. Len(issued["eigen"]) :
              /\ issued["eigen"][i].provider = "EigenAI"
              /\ issued["eigen"][i].seed = eigenSeed
        /\ \A i \in 1 .. Len(issued["eigenRandom"]) :
              /\ issued["eigenRandom"][i].provider = "EigenAI"
              /\ issued["eigenRandom"][i].seed = randomSeed

\* C4. Prompt validation: a request whose prompt is absent, empty or
\* whitespace-only is answered 400 with an error body and no upstream call
\* is ever issued, whatever the credentials and the other fields.
C4_PromptValidation ==
    (pc # "start" /\ PromptBlank) =>
        /\ Len(sent) = 1
        /\ sent[1].status = 400
        /\ sent[1].error # <<>>
        /\ sent[1].result = <<>>
        /\ \A g \in Groups : issued[g] = <<>> /\ call[g] = <<>>
        /\ timer = <<>>

\* a whitespace-only prompt, sent with both credentials configured, has
\* been answered
C4_Witness ==
    /\ pc = "done"
    /\ req.raw = "json"
    /\ req.prompt.present
    /\ Len(req.prompt.text) > 0
    /\ PromptBlank
    /\ CredentialsPresent
    /\ Len(sent) = 1

\* C5. Credential check: a request with a valid prompt, handled while a
\* provider credential is absent from the configuration (unset, or set to
\* the empty string), is answered 500 with a message that names a
\* credential that is absent, and no upstream call is issued.
C5_CredentialCheck ==
    (pc # "start" /\ ~PromptBlank /\ ~CredentialsPresent) =>
        /\ Len(sent) = 1
        /\ sent[1].status = 500
        /\ sent[1].result = <<>>
        /\ \E k \in 1 .. Len(sent[1].error) :
              \/ sent[1].error[k] = "OPENAI_API_KEY" /\ env.openaiKey \in {Unset, ""}
              \/ sent[1].error[k] = "EIGENAI_API_KEY" /\ env.eigenKey \in {Unset, ""}
        /\ \A g \in Groups : issued[g] = <<>> /\ call[g] = <<>>
        /\ timer = <<>>

\* a valid prompt answered while only the EigenAI credential is absent
C5_Witness ==
    /\ pc = "done"
    /\ ~PromptBlank
    /\ env.openaiKey = "key"
    /\ env.eigenKey = Unset
    /\ Len(sent) = 1

\* C6. Fail-fast without cancellation: the step in which the first upstream
\* call of a request rejects produces the 500 response, whatever calls are
\* still in flight; that step leaves every other call (and its timer) as it
\* was, and once a response exists no later step changes it or adds another.
C6_FailFast ==
    [][ /\ sent # <<>> => sent' = sent
        /\ \A g \in Groups : \A i \in 1 .. Len(call'[g]) :
              (~Failed(g, i) /\ Failed(g, i)') =>
                 /\ pc = "awaiting" =>
                       /\ pc' = "done"
                       /\ Len(sent') = 1
                       /\ sent'[1].status = 500
                 /\ \A h \in Groups : \A j \in 1 .. Len(call[h]) :
                       <<h, j>> # <<g, i>> =>
                          /\ call'[h][j] = call[h][j]
                          /\ h = "openai" => timer'[j] = timer[j]
      ]_vars

\* the 500 response exists while a sibling of the failed call, in the same
\* group, and calls of the other groups are still in flight
C6_Witness ==
    /\ Len(sent) = 1
    /\ sent[1].status = 500
    /\ \E g \in Groups :
          /\ \E i \in 1 .. Len(call[g]) : call[g][i] = "rejected"
          /\ \E i \in 1 .. Len(call[g]) : Pending(call[g][i])
          /\ \A h \in Groups \ {g} : \A i \in 1 .. Len(call[h]) : Pending(call[h][i])

\* C7. No leak of upstream errors: whichever upstream call failed, and
\* whatever status and body it failed with, the response is the same:
\* status 500 with the one fixed message, which holds neither a status nor
\* a body of an upstream answer.
C7_NoLeak ==
    SomeCallFailed =>
        /\ sent = << [status |-> 500, error |-> FailureText, result |-> <<>>] >>
        /\ \A k \in 1 .. Len(sent[1].error) : \A f \in Failures :
              sent[1].error[k] # f.status /\ sent[1].error[k] # f.body

\* the comparison failed on an HTTP error whose status and body were logged
C7_Witness ==
    /\ Len(sent) = 1
    /\ Len(logged) = 1
    /\ logged[1].kind = "http"
    /\ logged[1].message = <<"EigenAI", " HTTP ", "500", ": ", "secret">>

\* C8. OpenAI timeout: every OpenAI call has its own timer of 20000 ms,
\* armed from the issue of the call for as long as the call is unsettled;
\* a call whose timer has fired has failed, and the comparison has ended
\* with the same 500 failure response as for any other upstream error.
C8_OpenAiTimeout ==
    /\ Len(timer) = Len(call["openai"])
    /\ \A i \in 1 .. Len(timer) :
          /\ timer[i].ms = 20000
          /\ Pending(call["openai"][i]) => timer[i].st = "armed"
          /\ timer[i].st = "fired" =>
                /\ call["openai"][i] = "rejected"
                /\ sent = << [status |-> 500, error |-> FailureText, result |-> <<>>] >>

\* the timer of the second OpenAI run fired first and ended the comparison
\* while the first run was still unsettled
C8_Witness ==
    /\ Len(timer) >= 2
    /\ timer[2].st = "fired"
    /\ timer[1].st = "armed"
    /\ Len(logged) = 1
    /\ logged[1].kind = "abort"
    /\ Len(sent) = 1
    /\ sent[1].status = 500

\* C9. Run-count clamping: a numeric `runs` below MIN_RUNS gives the
\* effective run count MIN_RUNS, one above MAX_RUNS gives MAX_RUNS, one
\* inside the range gives its floor; in each case the request is not
\* rejected: the handler goes on to issue that many calls per group.
C9_Clamping ==
    (pc # "start" /\ req.runs.k \in {"fin", "inf", "ninf"}) =>
        /\ sent = <<>>
        /\ pc = "awaiting"
        /\ runs.k = "fin"
        /\ \A g \in Groups : Len(issued[g]) * Scale = runs.v
        /\ \/ req.runs.k = "ninf" /\ runs.v = MIN_RUNS * Scale
           \/ req.runs.k = "inf" /\ runs.v = MAX_RUNS * Scale
           \/ req.runs.k = "fin" /\ req.runs.v < MIN_RUNS * Scale /\ runs.v = MIN_RUNS * Scale
           \/ req.runs.k = "fin" /\ req.runs.v > MAX_RUNS * Scale /\ runs.v = MAX_RUNS * Scale
           \/ /\ req.runs.k = "fin"
              /\ req.runs.v >= MIN_RUNS * Scale
              /\ req.runs.v <= MAX_RUNS * Scale
              /\ \E n \in MIN_RUNS .. MAX_RUNS :
                    /\ runs.v = n * Scale
                    /\ n * Scale <= req.runs.v
                    /\ req.runs.v < (n + 1) * Scale

\* a request with runs above MAX_RUNS has been accepted with MAX_RUNS runs
C9_Witness ==
    /\ pc = "awaiting"
    /\ req.runs.k = "fin"
    /\ req.runs.v > MAX_RUNS * Scale
    /\ runs.v = MAX_RUNS * Scale
    /\ Len(issued["openai"]) = MAX_RUNS

\* C10. Run-count default: when `runs` is absent or non-finite (NaN,
\* +Infinity, -Infinity) the effective run count is the default 4 clamped
\* into [MIN_RUNS, MAX_RUNS].
C10_DefaultRuns ==
    (pc # "start" /\ req.runs.k \in {"undef", "nan", "inf", "ninf"}) =>
        LET d == IF 4 < MIN_RUNS THEN MIN_RUNS ELSE IF 4 > MAX_RUNS THEN MAX_RUNS ELSE 4
        IN  runs = [k |-> "fin", v |-> d * Scale]

(***************************************************************************)
(* Properties of parseEigenMessage, over the cleanup specification.        *)
(***************************************************************************)
\* the text holds a `<|...|>` token: "<|", at least one character, none of
\* them ">", and "|>"
HasTag(s) ==
    \E p \in 1 .. Len(s) : \E q \in (p + 3) .. (Len(s) - 1) :
        /\ s[p] = "<" /\ s[p + 1] = "|"
        /\ s[q] = "|" /\ s[q + 1] = ">"
        /\ \A k \in (p + 2) .. (q - 1) : s[k] # ">"

\* a line of the text starts with optional blanks and ">"
HasQuotedLine(s) ==
    \E p \in 1 .. Len(s) :
        /\ s[p] = ">"
        /\ \E b \in 0 .. (p - 1) :
              /\ b = 0 \/ s[b] = "\n"
              /\ \A k \in (b + 1) .. (p - 1) : s[k] \in {" ", "\t"}

CleanText(s) == ~HasTag(s) /\ ~HasQuotedLine(s)

\* C11 as stated. Cleanup idempotence: for every text, cleaning the cleaned
\* text gives the cleaned text again.
C11_Idempotent ==
    cleanup.pc = "twice" => cleanup.twice = cleanup.once

\* C11, amended. Cleaning is a no-op on clean text: whenever the cleaned
\* text holds no `<|...|>` token and no line that starts with optional
\* blanks and ">", cleaning it again returns it unchanged.
C11_IdempotentOnClean ==
    (cleanup.pc = "twice" /\ CleanText(cleanup.once)) => cleanup.twice = cleanup.once

\* a text with tags, an end marker and surrounding blanks was cleaned to
\* "World", and cleaned again
C11_Witness ==
    /\ cleanup.pc = "twice"
    /\ cleanup.raw = TaggedText
    /\ cleanup.once = <<"W", "o", "r", "l", "d">>
    /\ CleanText(cleanup.once)
    /\ cleanup.twice = cleanup.once

\* C12. End-marker step: when the trimmed text holds the end marker, the
\* text up to and including its last occurrence is discarded and the result
\* is that of the remaining steps (tag removal, quote stripping, trim)
\* applied to exactly the text after that marker; with no marker the whole
\* trimmed text is kept.
C12_EndMarkerStep ==
    cleanup.pc # "raw" =>
        LET t == Trim(cleanup.raw)
            marks == {p \in 1 .. Len(t) : OccursAt(t, EndMarker, p)}
            kept == IF marks = {} THEN t
                    ELSE SubSeq(t, Largest(marks) + Len(EndMarker), Len(t))
        IN  cleanup.once = IF t = <<>> THEN <<>> ELSE Trim(MapLines(RemoveTags(kept)))

\* C13. Tag removal: every `<|...|>` token is removed from the text kept
\* after the end-marker step, so that the cleaned text of every input holds
\* no `<|...|>` token.
C13_NoTagLeft ==
    cleanup.pc # "raw" => ~HasTag(cleanup.once)

\* C14. Literal cases: "  <|start|>Hello<|end|> World  " is cleaned to
\* "World"; "> quoted line\nplain line" to the same two lines without the
\* leading "> "; an empty or whitespace-only text to the empty text; the
\* text "<|end|>" to the empty text.
C14_LiteralCases ==
    cleanup.pc # "raw" =>
        /\ cleanup.raw = TaggedText => cleanup.once = <<"W", "o", "r", "l", "d">>
        /\ cleanup.raw = QuotedText =>
              cleanup.once = <<"q", "u", "o", "t", "e", "d", " ", "l", "i", "n", "e", "\n",
                               "p", "l", "a", "i", "n", " ", "l", "i", "n", "e">>
        /\ (\A k \in 1 .. Len(cleanup.raw) : cleanup.raw[k] \in Whitespace) =>
              cleanup.once = <<>>
        /\ cleanup.raw = <<"<", "|", "e", "n", "d", "|", ">">> => cleanup.once = <<>>

\* the tagged text has been cleaned once
C14_Witness ==
    /\ cleanup.pc = "once"
    /\ cleanup.raw = TaggedText
    /\ cleanup.once = <<"W", "o", "r", "l", "d">>

\* C15. Seed derivation: for a UUID-shaped text, uuidToSeed returns the
\* unsigned 32-bit value of the first eight hexadecimal digits with bit 31
\* cleared: a number in 0 .. 2^31 - 1 whose hexadecimal digits are those
\* eight, the first taken modulo 8; the result depends on the UUID alone.
C15_SeedDerivation ==
    derived.pc = "seed" =>
        /\ derived.seed \in 0 .. 2147483647
        /\ derived.seed \div (16 ^ 7) = derived.uuid[1] % 8
        /\ \A k \in 2 .. 8 : (derived.seed \div (16 ^ (8 - k))) % 16 = derived.uuid[k]
        /\ \A u \in SeedUuids :
              SubSeq(u, 1, 8) = SubSeq(derived.uuid, 1, 8) => uuidToSeed(u) = derived.seed

\* the seed of ffffffff-0000-4000-8000-000000000000 is 2^31 - 1
C15_Witness ==
    /\ derived.pc = "seed"
    /\ derived.uuid[1] = 15
    /\ derived.uuid[8] = 15
    /\ derived.seed = 2147483647

(***************************************************************************)
(* Properties of the handler, continued.                                   *)
(***************************************************************************)
\* C16. Random-seed provenance: in every 200 response eigenRandom.seedUuid
\* is the UUID generated for the request and eigenRandom.seed is uuidToSeed
\* of it; every call of the random-seeded group was sent with exactly that
\* seed; the caller-seeded group carries no seedUuid.
C16_RandomSeed ==
    \A k \in 1 .. Len(sent) :
        sent[k].status = 200 =>
            LET r == sent[k].result[1]
            IN  /\ r.eigenRandom.seedUuid \in UUIDs
                /\ r.eigenRandom.seedUuid = randomSeedUuid
                /\ r.eigenRandom.seed = [k |-> "int", v |-> uuidToSeed(r.eigenRandom.seedUuid)]
                /\ Len(issued["eigenRandom"]) = Len(r.eigenRandom.responses)
                /\ \A i \in 1 .. Len(issued["eigenRandom"]) :
                      issued["eigenRandom"][i].seed = r.eigenRandom.seed
                /\ r.eigen.seedUuid = <<>>

\* a 200 response of a comparison with two calls per group, the caller's
\* seed given, whose random seed is that of f47ac10b-...: 0x747ac10b
C16_Witness ==
    /\ Len(sent) = 1
    /\ sent[1].status = 200
    /\ Len(issued["eigenRandom"]) >= 2
    /\ req.eigenSeed.k = "fin"
    /\ sent[1].result[1].eigenRandom.seed.v = 1954201867
    /\ sent[1].result[1].eigen.seed # sent[1].result[1].eigenRandom.seed

\* C17. Seed selection: the seed of the caller-seeded group is the floor of
\* `eigenSeed` when the request carries a finite one, and the configured
\* default seed otherwise (absent or non-finite); every call of that group
\* is sent with it and eigen.seed of the 200 response reports it.
C17_SeedSelection ==
    (pc # "start" /\ Accepted) =>
        /\ \/ /\ req.eigenSeed.k = "fin"
              /\ \E n \in (0 - 8) .. 8 :
                    /\ n * Scale <= req.eigenSeed.v
                    /\ req.eigenSeed.v < (n + 1) * Scale
                    /\ eigenSeed = [k |-> "fin", v |-> n * Scale]
           \/ /\ req.eigenSeed.k # "fin"
              /\ eigenSeed = [k |-> "fin", v |-> 42 * Scale]
        /\ \A i \in 1 .. Len(issued["eigen"]) : issued["eigen"][i].seed = eigenSeed
        /\ \A k \in 1 .. Len(sent) :
              sent[k].status = 200 => sent[k].result[1].eigen.seed = eigenSeed

\* a 200 response to a request whose eigenSeed lies strictly between 7 and
\* 8: two calls were sent with seed 7
C17_Witness ==
    /\ Len(sent) = 1
    /\ sent[1].status = 200
    /\ req.eigenSeed.k = "fin"
    /\ req.eigenSeed.v > 7 * Scale
    /\ req.eigenSeed.v < 8 * Scale
    /\ Len(issued["eigen"]) = 2
    /\ sent[1].result[1].eigen.seed = [k |-> "fin", v |-> 7 * Scale]

\* C18. Malformed body: a request whose body is empty or is not JSON is
\* handled as one with an empty body; the parse error is not escalated: the
\* one response is the 400 "prompt required", and no upstream call is
\* issued.
C18_MalformedBody ==
    (pc # "start" /\ req.raw \in {"empty", "malformed"}) =>
        /\ sent = << [status |-> 400, error |-> <<"Prompt is required.">>, result |-> <<>>] >>
        /\ \A g \in Groups : issued[g] = <<>> /\ call[g] = <<>>
        /\ timer = <<>>
        /\ \A k \in 1 .. Len(logged) : logged[k].kind = "warn"

\* a body that is not JSON has been answered, with both credentials set
C18_Witness ==
    /\ pc = "done"
    /\ req.raw = "malformed"
    /\ CredentialsPresent
    /\ Len(sent) = 1
    /\ sent[1].status = 400
    /\ Len(logged) = 1

\* C19. Group shape: in every 200 response, whatever `runs` the request
\* carried, the three groups report the same `runs`, an integer in
\* MIN_RUNS .. MAX_RUNS, and `responses` of each group has exactly that
\* many entries.
C19_GroupShape ==
    \A k \in 1 .. Len(sent) :
        sent[k].status = 200 =>
            LET r == sent[k].result[1]
            IN  /\ r.eigen.runs = r.openai.runs
                /\ r.eigenRandom.runs = r.openai.runs
                /\ r.openai.runs.k = "fin"
                /\ \E n \in MIN_RUNS .. MAX_RUNS :
                      /\ r.openai.runs.v = n * Scale
                      /\ Len(r.openai.responses) = n
                      /\ Len(r.eigen.responses) = n
                      /\ Len(r.eigenRandom.responses) = n

\* a call to EigenAI is in flight
EigenInFlight == \E g \in EigenGroups : \E i \in 1 .. Len(call[g]) : call[g][i] = "fetch"

\* C20. Termination: under fair scheduling of timers, and provided every
\* call to EigenAI eventually settles, every accepted request eventually
\* has its response, and never more than one; nothing is assumed of the
\* OpenAI calls, which their timers settle. Conversely, for as long as a
\* call to EigenAI is unsettled and no call has failed, the request has no
\* response.
C20_Termination ==
    /\ Accepted ~> (Len(sent) = 1 /\ pc = "done")
    /\ [](Len(sent) <= 1)
    /\ []((EigenInFlight /\ ~SomeCallFailed) => (sent = <<>> /\ pc = "awaiting"))

\* an accepted request was answered on the timeout of an OpenAI call that
\* never returned, after every call to EigenAI had succeeded
C20_Witness ==
    /\ Accepted
    /\ Len(sent) = 1
    /\ Len(logged) = 1
    /\ logged[1].kind = "abort"
    /\ \E i \in 1 .. Len(call["openai"]) : call["openai"][i] = "rejected" /\ timer[i].st = "fired"
    /\ \A g \in EigenGroups :
          /\ Len(call[g]) >= 2
          /\ \A i \in 1 .. Len(call[g]) : call[g][i] = "fulfilled"

\* C21. Order of the gates: the prompt is checked first, then the OpenAI
\* credential, then the EigenAI credential, and the first failing check
\* gives the response: a blank prompt is answered 400 whatever the
\* credentials; a valid prompt without the OpenAI credential is answered
\* 500 with a message that names OPENAI_API_KEY and not EIGENAI_API_KEY,
\* also when both credentials are absent; the message names
\* EIGENAI_API_KEY only when that credential alone is absent.
C21_GateOrder ==
    pc # "start" =>
        /\ PromptBlank => (Len(sent) = 1 /\ sent[1].status = 400)
        /\ (~PromptBlank /\ env.openaiKey \in {Unset, ""}) =>
              /\ Len(sent) = 1
              /\ sent[1].status = 500
              /\ \E k \in 1 .. Len(sent[1].error) : sent[1].error[k] = "OPENAI_API_KEY"
              /\ \A k \in 1 .. Len(sent[1].error) : sent[1].error[k] # "EIGENAI_API_KEY"
        /\ (~PromptBlank /\ env.openaiKey \notin {Unset, ""} /\ env.eigenKey \in {Unset, ""}) =>
              /\ Len(sent) = 1
              /\ sent[1].status = 500
              /\ \E k \in 1 .. Len(sent[1].error) : sent[1].error[k] = "EIGENAI_API_KEY"
              /\ \A k \in 1 .. Len(sent[1].error) : sent[1].error[k] # "OPENAI_API_KEY"

\* a whitespace-only prompt sent while both credentials are unset has been
\* answered 400
C21_Witness ==
    /\ pc = "done"
    /\ req.raw = "json"
    /\ req.prompt.present
    /\ Len(req.prompt.text) > 0
    /\ PromptBlank
    /\ env.openaiKey = Unset
    /\ env.eigenKey = Unset
    /\ Len(sent) = 1
    /\ sent[1].status = 400

\* C22. Timer hygiene: an OpenAI call that settles clears its own timer, on
\* success and on failure, and not before its body has been read; so a
\* timer is armed only while its call is unsettled, a timer fires only for
\* a call that is unsettled and the abort rejects that call and leaves
\* every other call as it was, and once all calls of the request have
\* settled no timer is armed.
C22_TimerHygiene ==
    [][ /\ \A i \in 1 .. Len(timer') :
              /\ timer'[i].st = "armed" <=> call'["openai"][i] \in {"fetch", "body"}
              /\ call'["openai"][i] = "fulfilled" => timer'[i].st = "cleared"
        /\ \A i \in 1 .. Len(timer) :
              (timer[i].st # "fired" /\ timer'[i].st = "fired") =>
                 /\ call["openai"][i] \in {"fetch", "body"}
                 /\ call'["openai"][i] = "rejected"
                 /\ \A g \in Groups : \A j \in 1 .. Len(call[g]) :
                       <<g, j>> # <<"openai", i>> => call'[g][j] = call[g][j]
                 /\ \A j \in 1 .. Len(timer) : j # i => timer'[j] = timer[j]
      ]_vars

\* every call of a comparison with two runs per group has settled, one
\* OpenAI call by its timeout and the other on its own, and no timer is
\* armed
C22_Witness ==
    /\ Len(timer) >= 2
    /\ \A g \in Groups : \A i \in 1 .. Len(call[g]) : call[g][i] \in {"fulfilled", "rejected"}
    /\ \E i \in 1 .. Len(timer) : timer[i].st = "fired"
    /\ \E i \in 1 .. Len(timer) : timer[i].st = "cleared" /\ call["openai"][i] = "fulfilled"
    /\ \A i \in 1 .. Len(timer) : timer[i].st # "armed"


\* C23. The page never shows a result and an error together: result and
\* error are never both non-null; a successful submission leaves result set
\* and error null, a failed one leaves error set and result null, and a
\* reset leaves both null.
C23_ViewExclusive ==
    view.last # "unmounted" =>
        /\ view.result.null \/ view.error.null
        /\ view.last = "success" => (~view.result.null /\ view.error.null)
        /\ view.last = "failure" => (~view.error.null /\ view.result.null)
        /\ view.last = "reset" => (view.result.null /\ view.error.null)
\* a request failed without an error text, and no result is shown
C23_Witness ==
    /\ view.last = "failure"
    /\ view.error = Error("Request failed.")
    /\ view.result.null
    /\ view.inflight = <<>>

\* C24. isLoading is true exactly while a submission's request is pending,
\* and it is false again once the request has settled; the controls are
\* disabled meanwhile, so at most one request is in flight and no reset
\* happens while a request is pending.
C24_LoadingProtocol ==
    view.last # "unmounted" =>
        /\ Len(view.inflight) <= 1
        /\ view.isLoading <=> Len(view.inflight) = 1
        /\ view.last = "submit" => view.isLoading
        /\ view.last \in {"success", "failure"} => ~view.isLoading
        /\ view.last = "reset" => view.inflight = <<>>
        /\ view.isLoading => (~ENABLED Submit /\ ~ENABLED Reset)
\* a request is pending while the Reset button is shown, disabled
C24_Witness ==
    /\ view.last = "submit"
    /\ view.isLoading
    /\ Len(view.inflight) = 1
    /\ ResetShown(view)
    /\ Disabled(view)

\* C25. With MIN_RUNS <= min(4, MAX_RUNS), whatever is typed into the
\* run-count field, cleared, blurred or reset, the runs state and the runs
\* of every request a submission sends is an integer in MIN_RUNS..MAX_RUNS.
C25_ViewRuns ==
    (view.last # "unmounted" /\ MIN_RUNS <= 4 /\ MIN_RUNS <= MAX_RUNS) =>
        /\ \E n \in MIN_RUNS .. MAX_RUNS : view.runs = Num(n)
        /\ \A i \in 1 .. Len(view.inflight) :
              \E n \in MIN_RUNS .. MAX_RUNS : view.inflight[i].runs = Num(n)
\* a number above MAX_RUNS was typed, the field was cleared, and the
\* submission sent MAX_RUNS
C25_Witness ==
    /\ view.last = "submit"
    /\ view.runsInput = <<>>
    /\ Len(view.inflight) = 1
    /\ view.inflight[1].runs = Num(MAX_RUNS)

=========================================================================
